---------------------------- MODULE Spec2Model ----------------------------
(***************************************************************************)
(* A model of the Fourier series visualizer (src/src/App.jsx).            *)
(*                                                                         *)
(* Numbers.  The program computes in IEEE doubles; every value the model   *)
(* needs is a short decimal, so reals are fixed point integers:            *)
(*   - an amplitude or a y value a is the integer a * Scale (1e-4 units);  *)
(*   - an abscissa x of the sample grid is its grid index k, standing for  *)
(*     x = (k / NUM_POINTS) * 2 * pi;                                      *)
(*   - a coefficient is kept exact, num / (den * pi^k), and is evaluated   *)
(*     with Math.PI taken as PiNum / PiDen;                                *)
(*   - a pixel coordinate is a fraction, and its toFixed(1) text is the    *)
(*     integer number of tenths of a pixel.                                *)
(* Arrays are 0-based in the source and 1-based here: position i + 1 of a  *)
(* sequence is index i of the array.                                       *)
(***************************************************************************)
EXTENDS Integers, Sequences, FiniteSets, TLC

VARIABLES
    heap,            \* the amplitude array objects: slot -> array (<<>>: free)
    ampRef,          \* useState `amplitudes`: the slot of the current array
    waveType,        \* useState `waveType`
    containerWidth,  \* useState `containerWidth`
    view,            \* what the last render derived from the state
    lastEvent,       \* history: the event handled last
    nEvents          \* history: how many events were handled

vars == <<heap, ampRef, waveType, containerWidth, view, lastEvent, nEvents>>

---------------------------------------------------------------------------
(* Bounds of the model and units *)

\* The longest sequence of user events explored.
MaxEvents == 3

\* Fixed point: one unit is 1e-4.
Scale == 10 ^ 4

\* One thousandth, in fixed point units.
Milli == Scale \div 1000

\* Math.PI as a fraction (355/113 = 3.14159292...).
PiNum == 355
PiDen == 113

---------------------------------------------------------------------------
(* Math of the JavaScript runtime *)

Abs(x) == IF x < 0 THEN -x ELSE x

MathMin(a, b) == IF a < b THEN a ELSE b

MathMax(a, b) == IF a > b THEN a ELSE b

\* Math.round of the fraction num/den (den > 0): floor(x + 1/2).
MathRound(num, den) == (2 * num + den) \div (2 * den)

RECURSIVE MathPow(_, _)
MathPow(base, e) == IF e = 0 THEN 1 ELSE base * MathPow(base, e - 1)

Rat(n, d) == [num |-> n, den |-> d]

RatEq(a, b) ==
    IF a.den = b.den THEN a.num = b.num ELSE a.num * b.den = b.num * a.den

RatLess(a, b) == a.num * b.den < b.num * a.den

\* Number.prototype.toFixed renders the integer n nearest to x * 10^f, the
\* larger n on a tie; here n itself, for the fraction num/den.
ToFixedInt(num, den, f) == MathRound(num * MathPow(10, f), den)

Digit(d) == <<"0", "1", "2", "3", "4", "5", "6", "7", "8", "9">>[d + 1]

RECURSIVE NatStr(_)
NatStr(n) == IF n < 10 THEN Digit(n) ELSE NatStr(n \div 10) \o Digit(n % 10)

\* x.toFixed(2) for a fixed point x >= 0.
ToFixed2(x) ==
    LET h == ToFixedInt(x, Scale, 2)
    IN  NatStr(h \div 100) \o "." \o Digit((h % 100) \div 10) \o Digit(h % 10)

---------------------------------------------------------------------------
(* Module constants of the source *)

COLORS == <<"#E63946", "#457B9D", "#2A9D8F", "#E76F51", "#7B2D8E">>

WaveKeys == {"square", "sawtooth", "triangle"}

NUM_POINTS == 500

\* The literal 0.001 of the significance tests.
Threshold == Milli

\* generateXValues: the grid, as indices (xs[k] = (k / NUM_POINTS) * 2 pi).
X_VALUES == [k \in 1..(NUM_POINTS + 1) |-> k - 1]

\* A coefficient is kept exact: num / (den * pi^pi), with den > 0.
Coef(n, d, p) == [num |-> n, den |-> d, pi |-> p]

\* A mutant: the sawtooth sign is Math.pow(-1, n).
coefficientsWrongSign(w, n) ==
    CASE w = "square" ->
           IF n % 2 = 1 THEN Coef(4, n, 1) ELSE Coef(0, 1, 0)
      [] w = "sawtooth" ->
           Coef(2 * MathPow(-1, n), n, 1)
      [] w = "triangle" ->
           IF n % 2 = 0 THEN Coef(0, 1, 0)
           ELSE LET k == (n - 1) \div 2
                IN  Coef(8 * MathPow(-1, k), n * n, 2)

\* WAVE_TYPES[w].coefficients(n)
coefficients(w, n) ==
    CASE w = "square" ->
           IF n % 2 = 1 THEN Coef(4, n, 1) ELSE Coef(0, 1, 0)
      [] w = "sawtooth" ->
           Coef(2 * MathPow(-1, n + 1), n, 1)
      [] w = "triangle" ->
           IF n % 2 = 0 THEN Coef(0, 1, 0)
           ELSE LET k == (n - 1) \div 2
                IN  Coef(8 * MathPow(-1, k), n * n, 2)

\* The number a coefficient stands for, as a fraction.
CoefValue(c) == Rat(c.num * MathPow(PiDen, c.pi), c.den * MathPow(PiNum, c.pi))

\* WAVE_TYPES[w].fn(x) at grid index k; the phase p = ((x % 2pi) + 2pi) % 2pi
\* is the grid index k % NUM_POINTS.
fn(w, k) ==
    LET p == ((k % NUM_POINTS) + NUM_POINTS) % NUM_POINTS
    IN  CASE w = "square" ->
               IF 2 * p < NUM_POINTS THEN Scale ELSE -Scale
          [] w = "sawtooth" ->
               (2 * p * Scale) \div NUM_POINTS - Scale
          [] w = "triangle" ->
               IF 4 * p < NUM_POINTS THEN (4 * p * Scale) \div NUM_POINTS
               ELSE IF 4 * p < 3 * NUM_POINTS
                    THEN 2 * Scale - (4 * p * Scale) \div NUM_POINTS
                    ELSE (4 * p * Scale) \div NUM_POINTS - 4 * Scale

\* Math.sin on the grid, to 1e-3 (Bhaskara's rational approximation, whose
\* error is below 0.002): SinTable[j] is sin(2 pi j / NUM_POINTS).
SinTable ==
    [j \in 0..(NUM_POINTS - 1) |->
        LET half == NUM_POINTS \div 2
            t == j % half
            p == t * (half - t)
            s == ((16 * p * 1000) \div (5 * half * half - 4 * p)) * (Scale \div 1000)
        IN  IF j < half THEN s ELSE -s]

\* amp * Math.sin(n * x) at grid index k.
HarmonicAt(amp, n, k) == MathRound(amp * SinTable[(n * k) % NUM_POINTS], Scale)

---------------------------------------------------------------------------
(* JavaScript arrays *)

\* arr[idx]: undefined past the end.
ArrayGet(arr, idx) == IF idx < Len(arr) THEN arr[idx + 1] ELSE "undefined"

\* arr[idx] = val: replaces an element, or appends at idx = length.
ArraySet(arr, idx, val) ==
    IF idx < Len(arr) THEN [arr EXCEPT ![idx + 1] = val] ELSE Append(arr, val)

\* null, and arr.filter(Boolean) of an array of objects and nulls.
Null == [null |-> TRUE]

FilterBoolean(arr) == SelectSeq(arr, LAMBDA e : e # Null)

RECURSIVE Join(_)
Join(strs) == IF strs = <<>> THEN "" ELSE Head(strs) \o Join(Tail(strs))

---------------------------------------------------------------------------
(* FourierVisualizer: what a render derives from the state *)

graphHeight == 220

graphWidth(cw) == MathMax(400, cw - 48)

\* The y range every Graph is given: [-2.2, 2.2].
YRange == <<-22 * (Scale \div 10), 22 * (Scale \div 10)>>

activeCount(amplitudes) ==
    Len(SelectSeq(amplitudes, LAMBDA a : Abs(a) > Threshold))

\* One dataset per kept harmonic; its data is IndividualData below.
individualDatasets(amplitudes) ==
    FilterBoolean([j \in 1..Len(amplitudes) |->
        LET amp == amplitudes[j]
            i   == j - 1
        IN  IF Abs(amp) < Threshold THEN Null
            ELSE [color |-> ArrayGet(COLORS, i), n |-> i + 1, amp |-> amp]])

individualLegend(amplitudes) ==
    FilterBoolean([j \in 1..Len(amplitudes) |->
        LET amp == amplitudes[j]
            i   == j - 1
        IN  IF Abs(amp) > Threshold
            THEN [color |-> ArrayGet(COLORS, i), label |-> "n=" \o NatStr(i + 1)]
            ELSE Null])

\* data of an individual dataset: X_VALUES.map(x => ({x, y: amp * sin(n * x)}))
IndividualData(ds) ==
    [j \in 1..Len(X_VALUES) |->
        [x |-> X_VALUES[j], y |-> HarmonicAt(ds.amp, ds.n, X_VALUES[j])]]

RECURSIVE SumAt(_, _, _)
SumAt(amplitudes, i, k) ==
    IF i > Len(amplitudes) THEN 0
    ELSE HarmonicAt(amplitudes[i], i, k) + SumAt(amplitudes, i + 1, k)

sumData(amplitudes) ==
    [j \in 1..Len(X_VALUES) |->
        [x |-> X_VALUES[j], y |-> SumAt(amplitudes, 1, X_VALUES[j])]]

targetData(w) ==
    [j \in 1..Len(X_VALUES) |-> [x |-> X_VALUES[j], y |-> fn(w, X_VALUES[j])]]

\* The sign U+2212 of the equation, written with the ASCII hyphen here.
MinusSign == "-"

eqParts(amplitudes) ==
    FilterBoolean([j \in 1..Len(amplitudes) |->
        LET amp == amplitudes[j]
            i   == j - 1
            n   == i + 1
        IN  IF Abs(amp) < Threshold THEN Null
            ELSE [sign    |-> IF amp < 0 THEN MinusSign ELSE "+",
                  coeff   |-> IF Abs(amp) = Scale THEN "" ELSE ToFixed2(Abs(amp)),
                  sinPart |-> IF n = 1 THEN "sin(x)"
                              ELSE "sin(" \o NatStr(n) \o "x)"]])

equationStr(amplitudes) ==
    LET parts == eqParts(amplitudes)
    IN  IF Len(parts) > 0
        THEN "f(x) = " \o Join([i \in 1..Len(parts) |->
                 LET p == parts[i]
                     prefix == IF i = 1
                               THEN (IF p.sign = MinusSign THEN MinusSign ELSE "")
                               ELSE " " \o p.sign \o " "
                 IN  prefix \o p.coeff \o p.sinPart])
        ELSE "f(x) = 0"

---------------------------------------------------------------------------
(* Graph *)

padding == [top |-> 40, right |-> 24, bottom |-> 44, left |-> 52]

plotW(width) == width - padding.left - padding.right

plotH(height) == height - padding.top - padding.bottom

\* toSVGX at grid index k: padding.left + (x / (2 pi)) * plotW, a fraction.
toSVGX(k, width) ==
    Rat(padding.left * NUM_POINTS + k * plotW(width), NUM_POINTS)

\* toSVGY: padding.top + ((yMax - y) / (yMax - yMin)) * plotH, a fraction.
toSVGY(y, yRange, height) ==
    LET yMin == yRange[1]
        yMax == yRange[2]
    IN  Rat(padding.top * (yMax - yMin) + (yMax - y) * plotH(height), yMax - yMin)

\* for (let v = yMin; v <= yMax; v += 0.5) yTicks.push(Math.round(v * 10) / 10)
RECURSIVE yTicksFrom(_, _)
yTicksFrom(v, yMax) ==
    IF v <= yMax
    THEN <<MathRound(v * 10, Scale) * (Scale \div 10)>>
             \o yTicksFrom(v + Scale \div 2, yMax)
    ELSE <<>>

yTicks(yRange) == yTicksFrom(yRange[1], yRange[2])

\* yTicks.filter((v) => v === Math.round(v)): the ticks that get a label.
yLabels(yRange) ==
    SelectSeq(yTicks(yRange), LAMBDA v : v = MathRound(v, Scale) * Scale)

\* A mutant: the y of a data point is mapped as it is.
PointYUnclamped(y, yRange, height) == toSVGY(y, yRange, height)

\* The pixel row of a data point: toSVGY(Math.max(yMin, Math.min(yMax, pt.y))).
PointY(y, yRange, height) ==
    toSVGY(MathMax(yRange[1], MathMin(yRange[2], y)), yRange, height)

\* The path of one dataset: a command and the two toFixed(1) numbers (in
\* tenths of a pixel) per point; nothing for a dataset without data.
PathOf(data, yRange, width, height) ==
    IF Len(data) = 0 THEN <<>>
    ELSE [i \in 1..Len(data) |->
            LET sx == toSVGX(data[i].x, width)
                sy == PointY(data[i].y, yRange, height)
            IN  [cmd |-> IF i = 1 THEN "M" ELSE "L",
                 x   |-> ToFixedInt(sx.num, sx.den, 1),
                 y   |-> ToFixedInt(sy.num, sy.den, 1)]]

\* The datasets of the three Graph elements, in order.
ChartData(amplitudes, w) ==
    LET ind == individualDatasets(amplitudes)
    IN  << [j \in 1..Len(ind) |-> IndividualData(ind[j])],
           <<sumData(amplitudes)>>,
           <<targetData(w), sumData(amplitudes)>> >>

\* The paths of the three Graph elements.
ChartPaths(amplitudes, w, cw) ==
    LET charts == ChartData(amplitudes, w)
    IN  [c \in 1..Len(charts) |->
            [d \in 1..Len(charts[c]) |->
                PathOf(charts[c][d], YRange, graphWidth(cw), graphHeight)]]

\* What FourierVisualizer shows for a state (the sample arrays and the paths
\* are the operators above, functions of the same state).
Render(amplitudes, w, cw) ==
    [rendered           |-> TRUE,
     target             |-> w,
     graphWidth         |-> graphWidth(cw),
     activeCount        |-> activeCount(amplitudes),
     individualDatasets |-> individualDatasets(amplitudes),
     individualLegend   |-> individualLegend(amplitudes),
     equationStr        |-> equationStr(amplitudes),
     yTicks             |-> yTicks(YRange),
     yLabels            |-> yLabels(YRange)]

Unrendered == [rendered |-> FALSE]

---------------------------------------------------------------------------
(* FourierVisualizer: state and event handlers *)

amplitudes == heap[ampRef]

\* A new array is allocated in the slot the current one does not occupy (the
\* array of two renders ago is garbage).
NewSlot == 1 - ampRef

\* Slider positions tried (min -2, max 2, step 0.01), in steps of 0.01.
SliderSteps == {-200, -100, 1, 200}

\* parseFloat(e.target.value) of a slider at step k.
SliderValue(k) == k * (Scale \div 100)

\* containerRef.current.offsetWidth values tried.
OffsetWidths == {320, 1200}

\* An event, with the waveform key selected when it arrived.
Event(op, args) == [op |-> op, args |-> args, wave |-> waveType]

Init ==
    /\ heap = [s \in 0..1 |-> IF s = 0 THEN <<0, 0, 0, 0, 0>> ELSE <<>>]
    /\ ampRef = 0
    /\ waveType = "square"
    /\ containerWidth = 800
    /\ view = Render(<<0, 0, 0, 0, 0>>, "square", 800)
    /\ lastEvent = Event("mount", <<>>)
    /\ nEvents = 0

\* setAmplitudes(next) with a new array, and the render that follows.
SetAmplitudes(next) ==
    /\ heap' = [heap EXCEPT ![NewSlot] = next]
    /\ ampRef' = NewSlot
    /\ view' = Render(next, waveType, containerWidth)
    /\ UNCHANGED <<waveType, containerWidth>>

\* A mutant: the array is changed in place and handed back, so React sees the
\* same reference and does not render.
setAmpInPlace(idx, val) ==
    /\ nEvents < MaxEvents
    /\ heap' = [heap EXCEPT ![ampRef] = ArraySet(amplitudes, idx, val)]
    /\ UNCHANGED <<ampRef, view, waveType, containerWidth>>
    /\ lastEvent' = Event("setAmp", <<idx, val>>)
    /\ nEvents' = nEvents + 1

\* A mutant: the slot after idx is written.
setAmpOffByOne(idx, val) ==
    /\ nEvents < MaxEvents
    /\ SetAmplitudes(ArraySet(amplitudes, idx + 1, val))
    /\ lastEvent' = Event("setAmp", <<idx, val>>)
    /\ nEvents' = nEvents + 1

\* setAmp(idx, val): next = [...prev]; next[idx] = val
setAmp(idx, val) ==
    /\ nEvents < MaxEvents
    /\ SetAmplitudes(ArraySet(amplitudes, idx, val))
    /\ lastEvent' = Event("setAmp", <<idx, val>>)
    /\ nEvents' = nEvents + 1

\* A mutant: an array of four zeros.
resetAllFour ==
    /\ nEvents < MaxEvents
    /\ SetAmplitudes(<<0, 0, 0, 0>>)
    /\ lastEvent' = Event("resetAll", <<>>)
    /\ nEvents' = nEvents + 1

\* resetAll: setAmplitudes([0, 0, 0, 0, 0])
resetAll ==
    /\ nEvents < MaxEvents
    /\ SetAmplitudes(<<0, 0, 0, 0, 0>>)
    /\ lastEvent' = Event("resetAll", <<>>)
    /\ nEvents' = nEvents + 1

\* Math.round(Math.min(2, Math.max(-2, c)) * 1000) / 1000, in fixed point.
IdealAmplitude(c) ==
    LET two == Rat(2, 1)
        v   == CoefValue(c)
        lo  == IF RatLess(v, Rat(-2, 1)) THEN Rat(-2, 1) ELSE v
        cl  == IF RatLess(two, lo) THEN two ELSE lo
    IN  MathRound(cl.num * 1000, cl.den) * Milli

\* A mutant: the waveform of the first render stays captured.
showIdealStale ==
    /\ nEvents < MaxEvents
    /\ SetAmplitudes([n \in 1..5 |-> IdealAmplitude(coefficients("square", n))])
    /\ lastEvent' = Event("showIdeal", [n \in 1..5 |-> coefficients("square", n)])
    /\ nEvents' = nEvents + 1

\* showIdeal: `wave` is WAVE_TYPES[waveType] of the render the click is in.
\* The event records the coefficients the handler computed.
showIdeal ==
    /\ nEvents < MaxEvents
    /\ SetAmplitudes([n \in 1..5 |-> IdealAmplitude(coefficients(waveType, n))])
    /\ lastEvent' = Event("showIdeal", [n \in 1..5 |-> coefficients(waveType, n)])
    /\ nEvents' = nEvents + 1

\* A mutant: selecting a waveform also clears the amplitudes.
selectWaveformResets(key) ==
    /\ nEvents < MaxEvents
    /\ waveType' = key
    /\ heap' = [heap EXCEPT ![NewSlot] = <<0, 0, 0, 0, 0>>]
    /\ ampRef' = NewSlot
    /\ view' = Render(<<0, 0, 0, 0, 0>>, key, containerWidth)
    /\ UNCHANGED containerWidth
    /\ lastEvent' = Event("select", <<key>>)
    /\ nEvents' = nEvents + 1

\* The select's onChange: setWaveType(e.target.value)
selectWaveform(key) ==
    /\ nEvents < MaxEvents
    /\ waveType' = key
    /\ view' = Render(amplitudes, key, containerWidth)
    /\ UNCHANGED <<heap, ampRef, containerWidth>>
    /\ lastEvent' = Event("select", <<key>>)
    /\ nEvents' = nEvents + 1

\* measure, on a resize: setContainerWidth(Math.min(offsetWidth, 960))
measure(offsetWidth) ==
    /\ nEvents < MaxEvents
    /\ containerWidth' = MathMin(offsetWidth, 960)
    /\ view' = Render(amplitudes, waveType, MathMin(offsetWidth, 960))
    /\ UNCHANGED <<heap, ampRef, waveType>>
    /\ lastEvent' = Event("resize", <<offsetWidth>>)
    /\ nEvents' = nEvents + 1

SliderChange == \E i \in 0..4, k \in SliderSteps : setAmp(i, SliderValue(k))

SelectChange == \E key \in WaveKeys : selectWaveform(key)

Resize == \E w \in OffsetWidths : measure(w)

Next == SliderChange \/ resetAll \/ showIdeal \/ SelectChange \/ Resize

Spec == Init /\ [][Next]_vars

---------------------------------------------------------------------------
(* The render as a function of the state: specifications whose initial     *)
(* states draw the state and whose one step renders it.                    *)

Vectors(S) == {<<a, b, c, d, e>> : a \in S, b \in S, c \in S, d \in S, e \in S}

\* Amplitudes around the significance threshold (0.0005, 0.001, 0.0011) and
\* the values 1 and 2 the equation treats apart.
RenderAmps == {-Scale, 0, 5 * (Milli \div 10), Milli, 11 * (Milli \div 10), Scale, 2 * Scale}

\* Amplitude vectors whose sum leaves the y range (every harmonic at an end
\* of the slider range) and vectors with harmonics left out.
GraphVectors == Vectors({-2 * Scale, 2 * Scale}) \cup Vectors({0, Scale})

InitOf(vectors, widths) ==
    /\ \E a \in vectors :
          heap = [s \in 0..1 |-> IF s = 0 THEN a ELSE <<>>]
    /\ ampRef = 0
    /\ waveType \in WaveKeys
    /\ containerWidth \in widths
    /\ view = Unrendered
    /\ lastEvent = Event("mount", <<>>)
    /\ nEvents = 0

\* The body of FourierVisualizer, once.
RenderStep ==
    /\ ~view.rendered
    /\ view' = Render(amplitudes, waveType, containerWidth)
    /\ UNCHANGED <<heap, ampRef, waveType, containerWidth, lastEvent, nEvents>>

InitRender == InitOf(Vectors(RenderAmps), {800})

SpecRender == InitRender /\ [][RenderStep]_vars

InitGraph == InitOf(GraphVectors, {800} \cup {MathMin(w, 960) : w \in OffsetWidths})

SpecGraph == InitGraph /\ [][RenderStep]_vars

---------------------------------------------------------------------------
(* Claims *)

Zeros == <<0, 0, 0, 0, 0>>

Stepped(op) == lastEvent'.op = op /\ nEvents' = nEvents + 1

\* The thousandth nearest to the fraction c clamped to [-2, 2] (the upper one
\* on a tie), as a number of thousandths.
NearestThousandth(c) ==
    LET cl == IF c.num > 2 * c.den THEN Rat(2, 1)
              ELSE IF c.num < -2 * c.den THEN Rat(-2, 1) ELSE c
        q  == (cl.num * 1000) \div cl.den
        r  == (cl.num * 1000) % cl.den
    IN  IF 2 * r >= cl.den THEN q + 1 ELSE q

\* C1: after showIdeal, whatever events came before, amplitude n is
\* coefficient(n) of the waveform selected at the click, clamped to [-2, 2]
\* and rounded to 3 decimals; with square it is [1.273, 0, 0.424, 0, 0.255].
C1_IdealOfSelectedWave ==
    lastEvent.op = "showIdeal" =>
        /\ Len(amplitudes) = 5
        /\ \A n \in 1..5 :
              amplitudes[n] =
                  NearestThousandth(CoefValue(coefficients(lastEvent.wave, n))) * Milli
        /\ lastEvent.wave = "square" =>
              amplitudes = [n \in 1..5 |-> <<1273, 0, 424, 0, 255>>[n] * Milli]

\* showIdeal clicked as the third event, with a waveform selected before.
C1_Witness ==
    /\ lastEvent.op = "showIdeal"
    /\ nEvents = 3
    /\ lastEvent.wave = "sawtooth"
    /\ amplitudes[2] = -318 * Milli

\* C2: setAmp(i, v) yields a new array of 5 whose entry i is v and whose
\* other entries are the previous ones; the previous array is not changed
\* and the waveform key stays.
C2_SetAmpCopyOnWrite ==
    [][Stepped("setAmp") =>
          LET i == lastEvent'.args[1]
              v == lastEvent'.args[2]
          IN  /\ ampRef' # ampRef
              /\ heap'[ampRef] = heap[ampRef]
              /\ Len(heap'[ampRef']) = 5
              /\ heap'[ampRef'][i + 1] = v
              /\ \A j \in (1..5) \ {i + 1} : heap'[ampRef'][j] = heap[ampRef][j]
              /\ waveType' = waveType]_vars

\* A slider moved to a new value while another harmonic is set.
C2_Witness ==
    /\ lastEvent.op = "setAmp"
    /\ Len(heap[NewSlot]) = 5
    /\ heap[NewSlot][lastEvent.args[1] + 1] # lastEvent.args[2]
    /\ \E j \in (1..5) \ {lastEvent.args[1] + 1} : amplitudes[j] # 0

\* C3: in every reachable state the amplitude vector has exactly 5 entries,
\* each in [-2, 2].
C3_AmplitudesInRange ==
    /\ Len(amplitudes) = 5
    /\ \A i \in 1..5 : -2 * Scale <= amplitudes[i] /\ amplitudes[i] <= 2 * Scale

\* Both ends of the range are held, after three slider changes.
C3_Witness ==
    /\ nEvents = 3
    /\ lastEvent.op = "setAmp"
    /\ \E i, j \in 1..5 : amplitudes[i] = 2 * Scale /\ amplitudes[j] = -2 * Scale

\* What is shown for an all-zero amplitude vector.
ZeroDisplay(amps, v) ==
    amps = Zeros =>
        LET sum == sumData(amps)
        IN  /\ v.individualDatasets = <<>>
            /\ v.individualLegend = <<>>
            /\ Len(sum) = NUM_POINTS + 1
            /\ \A j \in 1..(NUM_POINTS + 1) : sum[j].x = j - 1 /\ sum[j].y = 0

\* C6: reset leaves all five amplitudes 0 and the waveform key as it was;
\* and whenever the amplitudes are all 0 there is no individual dataset and
\* no legend entry, while the sum dataset has its 501 samples, all y = 0.
C6_ResetAndZeroDisplay ==
    /\ lastEvent.op = "resetAll" =>
          amplitudes = Zeros /\ waveType = lastEvent.wave
    /\ ZeroDisplay(amplitudes, view)

\* Reset clicked with a harmonic set and a waveform other than the first.
C6_Witness ==
    /\ lastEvent.op = "resetAll"
    /\ waveType = "triangle"
    /\ Len(heap[NewSlot]) = 5
    /\ heap[NewSlot] # Zeros
    /\ amplitudes = Zeros
    /\ view.individualDatasets = <<>>

SignAt(n) == IF n % 2 = 1 THEN 1 ELSE -1

\* C8: the coefficients showIdeal computes for n in 1..5: square 0 for even
\* n and 4/(pi n) for odd n; sawtooth (2/(pi n)) (-1)^(n+1); triangle 0 for
\* even n and of magnitude 8/(pi^2 n^2), positive at 1, negative at 3,
\* positive at 5.
C8_CoefficientPattern ==
    lastEvent.op = "showIdeal" =>
        \A n \in 1..5 :
            LET c == lastEvent.args[n]
            IN  /\ c.den > 0
                /\ waveType = "square" =>
                      IF n % 2 = 0 THEN c.num = 0
                      ELSE c.pi = 1 /\ c.num > 0 /\ c.num * n = 4 * c.den
                /\ waveType = "sawtooth" =>
                      /\ c.pi = 1
                      /\ c.num # 0
                      /\ c.num * n = 2 * SignAt(n) * c.den
                /\ waveType = "triangle" =>
                      IF n % 2 = 0 THEN c.num = 0
                      ELSE /\ c.pi = 2
                           /\ Abs(c.num) * n * n = 8 * c.den
                           /\ (n \in {1, 5} => c.num > 0)
                           /\ (n = 3 => c.num < 0)

\* showIdeal clicked with the triangle selected.
C8_Witness ==
    /\ lastEvent.op = "showIdeal"
    /\ waveType = "triangle"
    /\ lastEvent.args[3].num < 0

\* C9: only setAmp, resetAll and showIdeal change the amplitudes; selecting a
\* waveform changes the key and the target and nothing of the amplitudes or
\* the width; a resize changes the width only.
C9_SelectAndResizeFrame ==
    [][/\ Stepped("select") =>
             /\ waveType' = lastEvent'.args[1]
             /\ view'.target = lastEvent'.args[1]
             /\ heap' = heap /\ ampRef' = ampRef
             /\ containerWidth' = containerWidth
       /\ Stepped("resize") =>
             /\ heap' = heap /\ ampRef' = ampRef
             /\ waveType' = waveType
       /\ (heap'[ampRef'] # heap[ampRef] \/ ampRef' # ampRef) =>
             lastEvent'.op \in {"setAmp", "resetAll", "showIdeal"}]_vars

\* A waveform selected after showIdeal: the amplitudes are still those of the
\* square while the sawtooth is the target.
C9_Witness ==
    /\ lastEvent.op = "select"
    /\ waveType = "sawtooth"
    /\ view.target = "sawtooth"
    /\ amplitudes = [n \in 1..5 |-> IdealAmplitude(coefficients("square", n))]

\* C10: with the y range [-2.2, 2.2], each of the levels -2, -1, 0, 1, 2
\* has a gridline and a label.
C10_IntegerLevelsDrawn ==
    \A level \in -2..2 :
        /\ \E i \in 1..Len(view.yTicks) : view.yTicks[i] = level * Scale
        /\ \E i \in 1..Len(view.yLabels) : view.yLabels[i] = level * Scale

\* The harmonics the rule |a| > 0.001 calls significant.
Significant(amps) == {n \in 1..Len(amps) : Abs(amps[n]) > Threshold}

Range(seq) == {seq[i] : i \in 1..Len(seq)}

EquationOf(amps) ==
    LET terms == SelectSeq([n \in 1..Len(amps) |-> n],
                           LAMBDA n : Abs(amps[n]) > Threshold)
        Term(j) ==
            LET n == terms[j]
                lead == IF j = 1
                        THEN (IF amps[n] < 0 THEN MinusSign ELSE "")
                        ELSE (IF amps[n] < 0 THEN " " \o MinusSign \o " " ELSE " + ")
                factor == IF Abs(amps[n]) = Scale THEN "" ELSE ToFixed2(Abs(amps[n]))
                sine == IF n = 1 THEN "sin(x)" ELSE "sin(" \o NatStr(n) \o "x)"
            IN  lead \o factor \o sine
    IN  IF terms = <<>> THEN "f(x) = 0"
        ELSE "f(x) = " \o Join([j \in 1..Len(terms) |-> Term(j)])

PlotLeft == 10 * padding.left
PlotRight(width) == 10 * (padding.left + plotW(width))
PlotTop == 10 * padding.top
PlotBottom(height) == 10 * (padding.top + plotH(height))

Whole(n) == Rat(n, 1)

\* C7: the pixel row of a data point is that of the y clamped to the range:
\* yMax maps to top, yMin to top + plotHeight, 3.0 to the row of 2.2; every
\* point of every path lies in the plot rectangle; x = 0 maps to left and
\* x = 2 pi to left + plotWidth.
C7_PathsInsidePlot ==
    view.rendered =>
        LET w == view.graphWidth
            h == graphHeight
            paths == ChartPaths(amplitudes, waveType, containerWidth)
        IN  /\ RatEq(PointY(YRange[2], YRange, h), Whole(padding.top))
            /\ RatEq(PointY(YRange[1], YRange, h), Whole(padding.top + plotH(h)))
            /\ RatEq(PointY(3 * Scale, YRange, h), PointY(YRange[2], YRange, h))
            /\ RatEq(PointY(-3 * Scale, YRange, h), PointY(YRange[1], YRange, h))
            /\ RatEq(toSVGX(0, w), Whole(padding.left))
            /\ RatEq(toSVGX(NUM_POINTS, w), Whole(padding.left + plotW(w)))
            /\ \A c \in 1..Len(paths) : \A d \in 1..Len(paths[c]) :
                  LET path == paths[c][d]
                  IN  /\ Len(path) = NUM_POINTS + 1
                      /\ path[1].x = PlotLeft
                      /\ path[NUM_POINTS + 1].x = PlotRight(w)
                      /\ \A i \in 1..Len(path) :
                            /\ PlotLeft <= path[i].x /\ path[i].x <= PlotRight(w)
                            /\ PlotTop <= path[i].y /\ path[i].y <= PlotBottom(h)

\* A render whose sum leaves the y range on both sides and is drawn on the
\* top and on the bottom edge.
C7_Witness ==
    /\ view.rendered
    /\ amplitudes = <<2 * Scale, 2 * Scale, 2 * Scale, 2 * Scale, 2 * Scale>>
    /\ LET sum == sumData(amplitudes)
           path == PathOf(sum, YRange, view.graphWidth, graphHeight)
       IN  /\ \E j \in 1..Len(sum) : sum[j].y > 3 * Scale /\ path[j].y = PlotTop
           /\ \E j \in 1..Len(sum) :
                 sum[j].y < -3 * Scale /\ path[j].y = PlotBottom(graphHeight)

=============================================================================
